---- MODULE Spec2Model ----
(***************************************************************************)
(* A model of the moderation bot in src/main.py: the text normaliser and   *)
(* phrase matcher, the trust classifier, the dispatcher and its message    *)
(* handlers (with the interleaving of concurrently handled updates at      *)
(* their await points), the audit log writer, the audit log query and the  *)
(* ban / unban button handlers.                                            *)
(*                                                                         *)
(* Representation.  A Python str is a sequence of tokens (one-character    *)
(* strings, or multi-character strings that stand for a fixed literal of   *)
(* the source such as "User ID: ").  A str | None value that is None is    *)
(* the sequence None; an int | None value that is None is NoneId.          *)
(*                                                                         *)
(* Remote calls.  delete_message, ban_chat_member and unban_chat_member    *)
(* either return or raise TelegramBadRequest, the one error the source     *)
(* handles; get_chat, answer and pin return.  get_chat(...).bio is the     *)
(* profile's biography at the time of the call, which the user may change  *)
(* between any two calls.                                                  *)
(***************************************************************************)
EXTENDS Integers, Sequences, FiniteSets, TLC

VARIABLES
    started,    \* main() has reached start_polling
    ADMINS,     \* the global ADMINS: a sequence of user ids
    now,        \* the wall clock
    profile,    \* platform: each user's biography
    nchanges,   \* how often a biography was changed
    ev,         \* the updates received so far, each with its handler's locals
                \* and, in .trace, the log lines it wrote and the calls it made
    logfile,    \* log.jsonl: the lines written, oldest first
    deleted,    \* platform: the <<chat_id, message_id>> deleted
    banned,     \* platform: the <<chat_id, user_id>> banned
    file_lines, \* get_log_entries: what readlines() returned
    qstart,     \* get_log_entries: start
    qend,       \* get_log_entries: end
    qresult,    \* get_log_entries: what it returned, or raised
    raw,        \* normalize: the text given to it
    once,       \* normalize(raw)
    twice,      \* normalize(normalize(raw))
    sent,       \* the bot's messages in the administrator's private chat
    cb          \* the button presses received so far, each with its handler's locals

qvars == <<file_lines, qstart, qend, qresult, raw, once, twice>>
avars == <<sent, cb>>
botvars == <<started, ADMINS, profile, nchanges, ev>>
vars == <<started, ADMINS, now, profile, nchanges, ev, logfile, deleted, banned,
          qvars, avars>>

(***************************************************************************)
(* Bounds of the model.                                                    *)
(***************************************************************************)
MaxEvents == 2
MaxProfileChanges == 1
MaxLines == 3
MaxDate == 5
MaxPresses == 3
MaxText == 3
MaxCommands == 1

(***************************************************************************)
(* Values.                                                                 *)
(***************************************************************************)
None == <<"<None>">>
NoneId == -1
TelegramServiceId == 777000

RECURSIVE SeqToSet(_)
SeqToSet(s) == IF s = <<>> THEN {} ELSE {Head(s)} \cup SeqToSet(Tail(s))

\* phrase in text
Contains(phrase, text) ==
    \E i \in 0..(Len(text) - Len(phrase)) :
        \A j \in 1..Len(phrase) : text[i + j] = phrase[j]

(***************************************************************************)
(* class Text: the literals, "{}" a replacement field of str.format.       *)
(***************************************************************************)
Text_select_logs == <<"Select the time frame to view the logs:">>
Text_invalid_command == <<"Invalid command">>
Text_forbidden_command == <<"You are not allowed to use this command">>
Text_log_recieved_private == <<"The private message is recieved.">>
Text_log_recieved_public == <<"The message is recieved.">>
Text_log_unsupported_chat == <<"The chat is not supported.">>
Text_log_trusted_user == <<"The user is trusted.">>
Text_log_message_valid == <<"The message is valid.">>
Text_log_message_invalid == <<"The message is invalid.">>
Text_log_f_ban_fail ==
    <<"Failed to block user ", "{}", " in chat ", "{}", " from message ", "{}">>
Text_log_f_ban_success ==
    <<"Successfully blocked user ", "{}", " in chat ", "{}", " from message ", "{}">>
Text_no_data == <<"No data available">>
Text_f_ban_fail ==
    <<"Failed to block user ", "{}", " in chat ", "{}", " from message ", "{}">>
Text_f_ban_success ==
    <<"Successfully blocked the user.", "\n", "User ID: ", "{}", "\n",
      "Chat ID: ", "{}", "\n", "Message ID: ", "{}">>
Text_f_unban_fail ==
    <<"Failed to unblock user ", "{}", " in chat ", "{}", " from message ", "{}">>
Text_f_unban_success ==
    <<"Successfully unblocked the user.", "\n", "User ID: ", "{}", "\n",
      "Chat ID: ", "{}", "\n", "Message ID: ", "{}">>
Text_log_f_unban_fail == <<"Failed to unblock user ", "{}", " in chat ", "{}">>
Text_log_f_unban_success == <<"Successfully unblocked user ", "{}", " in chat ", "{}">>

\* str.format with positional arguments: each "{}" takes the next argument;
\* too few arguments raise IndexError, surplus arguments are ignored.
IndexError == <<"<IndexError>">>

RECURSIVE FormatFrom(_, _)
FormatFrom(template, args) ==
    IF template = <<>> THEN <<>>
    ELSE IF Head(template) = "{}"
         THEN <<Head(args)>> \o FormatFrom(Tail(template), Tail(args))
         ELSE <<Head(template)>> \o FormatFrom(Tail(template), args)

Fields(template) == Len(SelectSeq(template, LAMBDA t : t = "{}"))

Format(template, args) ==
    IF Len(args) < Fields(template) THEN IndexError
    ELSE FormatFrom(template, args)

\* str(i) of an int | None
Str(i) == IF i = NoneId THEN "None" ELSE ToString(i)

(***************************************************************************)
(* Configuration, as loaded by the __main__ block.                         *)
(***************************************************************************)
\* latin2cyrillic.json: Latin letters mapped to their Cyrillic look-alikes
\* ("cy_a" is CYRILLIC SMALL LETTER A, "cy_A" the capital, "cy_er" CYRILLIC
\* SMALL LETTER ER, the look-alike of p).
LATIN_TO_CYRILLIC(c) ==
    CASE c = "a" -> "cy_a"
      [] c = "A" -> "cy_A"
      [] c = "p" -> "cy_er"
      [] OTHER -> c

\* unidecode, one character: the ASCII transliteration ("cy_pe" is CYRILLIC
\* SMALL LETTER PE)
unidecode_char(c) ==
    CASE c = "cy_a" -> "a"
      [] c = "cy_A" -> "A"
      [] c = "cy_er" -> "r"
      [] c = "cy_pe" -> "p"
      [] OTHER -> c

\* str.lower, one character
lower_char(c) ==
    CASE c = "A" -> "a"
      [] c = "B" -> "b"
      [] c = "cy_A" -> "cy_a"
      [] OTHER -> c

normalize(text) ==
    LET t1 == [i \in 1..Len(text) |-> LATIN_TO_CYRILLIC(text[i])]
        t2 == [i \in 1..Len(t1) |-> unidecode_char(t1[i])]
        t3 == [i \in 1..Len(t2) |-> lower_char(t2[i])]
        t4 == SelectSeq(t3, LAMBDA c : c # " ")
    IN  SelectSeq(t4, LAMBDA c : c # "\n")

\* banned_phrases.json holds the one phrase "A b"
BANNED_PHRASES == <<normalize(<<"A", " ", "b">>)>>

VALID_CHATS == <<1, 2>>

\* get_chat_administrators(chat_id): the platform's answer
ChatAdministrators(chat_id) ==
    CASE chat_id = 1 -> <<10>>
      [] chat_id = 2 -> <<14>>
      [] OTHER -> <<>>

(***************************************************************************)
(* The updates the platform may deliver.                                   *)
(***************************************************************************)
Admin == [id |-> 10, is_bot |-> FALSE]      \* an administrator of chat 1 only
Member == [id |-> 11, is_bot |-> FALSE]
OtherBot == [id |-> 12, is_bot |-> TRUE]
Service == [id |-> TelegramServiceId, is_bot |-> FALSE]

Users == {Admin, Member, OtherBot, Service}

Group(g) == [id |-> g, type |-> "supergroup", title |-> <<"g", ToString(g)>>]
Private(u) == [id |-> u.id, type |-> "private", title |-> None]

\* who writes where; chat 3 is not in VALID_CHATS
Senders ==
    { <<Admin, Group(1)>>, <<Admin, Group(2)>>,
      <<Member, Group(1)>>, <<Member, Group(3)>>, <<Member, Private(Member)>>,
      <<OtherBot, Group(1)>>, <<Service, Group(2)>> }

Texts == { <<"b">>, <<"A", " ", "B">>, <<"/start", " ", "a", "b">> }

Bios == { None, <<"a", "\n", "b">> }

MessageIds == {7}

Results == {"ok", "TelegramBadRequest"}

(***************************************************************************)
(* Filters and classifiers.                                                *)
(***************************************************************************)
\* CommandStart(): the text's first word is the command /start
CommandStart(text) ==
    /\ text # None
    /\ Len(text) >= 1
    /\ text[1] = "/start"
    /\ (Len(text) >= 2 => text[2] \in {" ", "\n"})

is_in_valid_chat(message) == message.chat_id \in SeqToSet(VALID_CHATS)

\* is_trusted without the check of the system account
is_trusted_NoService(message, admins) ==
    \/ message.is_bot
    \/ message.from_id \in SeqToSet(admins)

is_trusted(message, admins) ==
    \/ message.is_bot
    \/ message.from_id \in SeqToSet(admins)
    \/ message.from_id = TelegramServiceId

validate_text(text) ==
    IF text = None THEN TRUE
    ELSE LET t == normalize(text)
         IN  ~ \E i \in 1..Len(BANNED_PHRASES) : Contains(BANNED_PHRASES[i], t)

\* is_valid, after get_chat has returned user_bio
is_valid(message, user_bio) == validate_text(user_bio) /\ validate_text(message.text)

\* the calls of validate_text one evaluation of is_valid makes ("and" short-circuits)
is_valid_calls(message, user_bio) == IF validate_text(user_bio) THEN 2 ELSE 1

\* bool(is_trusted): the truth value of a function object
FunctionTruth == TRUE

(***************************************************************************)
(* The audit log writer.                                                   *)
(***************************************************************************)
format_log(chat_id, chat_title, user_id, user_name, user_bio, message_id, message_date, message_text, comment) ==
    [ date |-> message_date, comment |-> comment, user_id |-> user_id,
      user_name |-> user_name, user_bio |-> user_bio, message_id |-> message_id,
      chat_id |-> chat_id, chat_title |-> chat_title, text |-> message_text ]

\* log(message, comment), message not None; user_bio is what get_chat returned
log_line(message, user_bio, comment) ==
    format_log(message.chat_id, message.chat_title, message.from_id,
               message.full_name, user_bio, message.message_id,
               message.date, message.text, comment)

\* log(None, comment), at time t
log_line_none(t, comment) ==
    format_log(NoneId, None, NoneId, None, None, NoneId, t, None, comment)

NoLine == log_line_none(NoneId, None)

\* one step of a handler, as its .trace keeps it
LogWrite(line) == [op |-> "log", line |-> line, args |-> <<>>, result |-> "ok"]
Call(op, args, result) == [op |-> op, line |-> NoLine, args |-> args, result |-> result]

(***************************************************************************)
(* The dispatcher: the first registered handler whose filter passes.       *)
(***************************************************************************)
Dispatch(kind, message) ==
    IF kind = "edited_message" THEN "edited_message_handler"
    ELSE IF CommandStart(message.text) THEN "start_message_handler"
    ELSE IF message.chat_type = "private" THEN "private_message_handler"
    ELSE "message_handler"

FirstPc(handler) ==
    CASE handler = "start_message_handler" -> "st_recv"
      [] handler = "private_message_handler" -> "pm_recv"
      [] OTHER -> "mh_recv"

NewEvent(kind, u, chat, text, mid, date) ==
    LET message ==
            [ chat_id |-> chat.id, chat_type |-> chat.type, chat_title |-> chat.title,
              from_id |-> u.id, is_bot |-> u.is_bot, full_name |-> <<"u", ToString(u.id)>>,
              text |-> text, message_id |-> mid, date |-> date ]
        handler == Dispatch(kind, message)
    IN  [ kind |-> kind, message |-> message, handler |-> handler,
          pc |-> FirstPc(handler), trace |-> <<>>, bio_seen |-> None,
          n_is_trusted |-> 0, n_is_valid |-> 0, n_validate_text |-> 0 ]

(***************************************************************************)
(* main(): the admin roster, the startup line, start_polling.              *)
(***************************************************************************)
RECURSIVE AllAdmins(_)
AllAdmins(chats) ==
    IF chats = <<>> THEN <<>>
    ELSE ChatAdministrators(Head(chats)) \o AllAdmins(Tail(chats))

Init ==
    /\ started = FALSE
    /\ ADMINS = <<>>
    /\ now = 1
    /\ profile = [u \in {x.id : x \in Users} |-> None]
    /\ nchanges = 0
    /\ ev = <<>>
    /\ logfile = <<>>
    /\ deleted = {}
    /\ banned = {}
    /\ file_lines = <<>>
    /\ qstart = 0
    /\ qend = 0
    /\ qresult = <<"<not called>">>
    /\ raw = <<>> /\ once = <<"<not called>">> /\ twice = <<"<not called>">>
    /\ sent = <<>>
    /\ cb = <<>>

Main ==
    /\ ~ started
    /\ started' = TRUE
    /\ ADMINS' = ADMINS \o AllAdmins(VALID_CHATS)
    /\ logfile' = Append(logfile, [ev |-> 0, line |-> log_line_none(now, <<"Current admins: ">>)])
    /\ UNCHANGED <<qvars, avars, now, profile, nchanges, ev, deleted, banned>>

\* a user edits the biography of the profile
ProfileChange ==
    /\ nchanges < MaxProfileChanges
    /\ \E u \in {Admin.id, Member.id}, b \in Bios :
          /\ profile[u] # b
          /\ profile' = [profile EXCEPT ![u] = b]
    /\ nchanges' = nchanges + 1
    /\ UNCHANGED <<qvars, avars, started, ADMINS, now, ev, logfile, deleted, banned>>

\* the platform delivers an update, a second later than the last one; an edited
\* message keeps the date it was sent at
Receive ==
    /\ started
    /\ Len(ev) < MaxEvents
    /\ now' = now + 1
    /\ \E kind \in {"message", "edited_message"}, s \in Senders, text \in Texts,
          mid \in MessageIds, date \in {now - 1, now, now + 1} :
          /\ kind = "message" => date = now + 1
          /\ kind = "edited_message" => date <= now
          /\ ev' = Append(ev, NewEvent(kind, s[1], s[2], text, mid, date))
    /\ UNCHANGED <<qvars, avars, started, ADMINS, profile, nchanges, logfile, deleted, banned>>

(***************************************************************************)
(* message_handler (and edited_message_handler, which awaits it).          *)
(***************************************************************************)
\* await log(message, comment): get_chat returns the biography, the line is written
Log(e, comment, pc2) ==
    LET line == log_line(ev[e].message, profile[ev[e].message.from_id], comment)
    IN  /\ logfile' = Append(logfile, [ev |-> e, line |-> line])
        /\ ev' = [ev EXCEPT ![e].trace = Append(@, LogWrite(line)), ![e].pc = pc2]

\* the chain with the trust check before the chat check
Branch_TrustFirst(message, admins) ==
    IF is_trusted(message, admins)
    THEN [pc |-> "mh_trusted", n_is_trusted |-> 1, n_is_valid |-> 0]
    ELSE IF ~ is_in_valid_chat(message)
    THEN [pc |-> "mh_unsupported", n_is_trusted |-> 1, n_is_valid |-> 0]
    ELSE [pc |-> "mh_is_valid", n_is_trusted |-> 1, n_is_valid |-> 1]

\* the if / elif chain of lines 346-354 up to its next await: the branch taken
\* and the calls of is_trusted and is_valid made on the way
Branch(message, admins) ==
    IF ~ is_in_valid_chat(message)
    THEN [pc |-> "mh_unsupported", n_is_trusted |-> 0, n_is_valid |-> 0]
    ELSE IF is_trusted(message, admins)
    THEN [pc |-> "mh_trusted", n_is_trusted |-> 1, n_is_valid |-> 0]
    ELSE [pc |-> "mh_is_valid", n_is_trusted |-> 1, n_is_valid |-> 1]

\* await log(message, Text.log_recieved_public), then the chain up to the next
\* await: the log call of the first two branches, the get_chat call of is_valid
MhReceived(e) ==
    /\ ev[e].pc = "mh_recv"
    /\ LET line == log_line(ev[e].message, profile[ev[e].message.from_id],
                            Text_log_recieved_public)
           b == Branch(ev[e].message, ADMINS)
       IN  /\ logfile' = Append(logfile, [ev |-> e, line |-> line])
           /\ ev' = [ev EXCEPT ![e].trace = Append(@, LogWrite(line)),
                               ![e].pc = b.pc,
                               ![e].n_is_trusted = b.n_is_trusted,
                               ![e].n_is_valid = b.n_is_valid]
    /\ UNCHANGED <<qvars, avars, started, ADMINS, now, profile, nchanges, deleted, banned>>

\* await log(message, ...) of a branch that returns after it
MhLogAndReturn(e) ==
    /\ ev[e].pc \in {"mh_unsupported", "mh_trusted", "mh_valid"}
    /\ Log(e, CASE ev[e].pc = "mh_unsupported" -> Text_log_unsupported_chat
                [] ev[e].pc = "mh_trusted" -> Text_log_trusted_user
                [] OTHER -> Text_log_message_valid,
           "done")
    /\ UNCHANGED <<qvars, avars, started, ADMINS, now, profile, nchanges, deleted, banned>>

\* is_valid: get_chat returns, validate_text decides
MhIsValid(e) ==
    /\ ev[e].pc = "mh_is_valid"
    /\ LET bio == profile[ev[e].message.from_id]
       IN  ev' = [ev EXCEPT
                   ![e].pc = IF is_valid(ev[e].message, bio) THEN "mh_valid"
                             ELSE "mh_invalid",
                   ![e].bio_seen = bio,
                   ![e].n_validate_text = is_valid_calls(ev[e].message, bio)]
    /\ UNCHANGED <<qvars, avars, started, ADMINS, now, profile, nchanges, logfile, deleted, banned>>

\* enforcement that starts without the 'invalid' line
MhLogInvalid_Skipped(e) ==
    /\ ev[e].pc = "mh_invalid"
    /\ ev' = [ev EXCEPT ![e].pc = "mh_delete"]
    /\ UNCHANGED <<qvars, avars, started, ADMINS, now, profile, nchanges, logfile, deleted, banned>>

\* await log(message, Text.log_message_invalid)
MhLogInvalid(e) ==
    /\ ev[e].pc = "mh_invalid"
    /\ Log(e, Text_log_message_invalid, "mh_delete")
    /\ UNCHANGED <<qvars, avars, started, ADMINS, now, profile, nchanges, deleted, banned>>

\* where the try statement of lines 363-383 goes after delete_message, after
\* ban_chat_member, and the line its except / else clause writes
\* a rejected ban that falls through to the else clause
AfterBan_Swallowed(r) == "mh_success"

AfterDelete(r) == IF r = "ok" THEN "mh_ban" ELSE "mh_fail"
AfterBan(r) == IF r = "ok" THEN "mh_success" ELSE "mh_fail"
OutcomeTemplate(pc) == IF pc = "mh_fail" THEN Text_log_f_ban_fail ELSE Text_log_f_ban_success

\* await BOT.delete_message(chat_id, message_id)
MhDelete(e) ==
    /\ ev[e].pc = "mh_delete"
    /\ LET m == ev[e].message
       IN  \E r \in Results :
              /\ deleted' = IF r = "ok" THEN deleted \cup {<<m.chat_id, m.message_id>>}
                            ELSE deleted
              /\ ev' = [ev EXCEPT
                          ![e].trace = Append(@, Call("delete_message",
                                                      <<m.chat_id, m.message_id>>, r)),
                          ![e].pc = AfterDelete(r)]
    /\ UNCHANGED <<qvars, avars, started, ADMINS, now, profile, nchanges, logfile, banned>>

\* await BOT.ban_chat_member(chat_id, user_id)
MhBan(e) ==
    /\ ev[e].pc = "mh_ban"
    /\ LET m == ev[e].message
       IN  \E r \in Results :
              /\ banned' = IF r = "ok" THEN banned \cup {<<m.chat_id, m.from_id>>}
                           ELSE banned
              /\ ev' = [ev EXCEPT
                          ![e].trace = Append(@, Call("ban_chat_member",
                                                      <<m.chat_id, m.from_id>>, r)),
                          ![e].pc = AfterBan(r)]
    /\ UNCHANGED <<qvars, avars, started, ADMINS, now, profile, nchanges, logfile, deleted>>

\* an outcome that is never logged
MhLogOutcome_Silent(e) ==
    /\ ev[e].pc \in {"mh_fail", "mh_success"}
    /\ ev' = [ev EXCEPT ![e].pc = "done"]
    /\ UNCHANGED <<qvars, avars, started, ADMINS, now, profile, nchanges, logfile, deleted, banned>>

\* the except / else clause: await log(message, Text.log_f_ban_....format(...))
MhLogOutcome(e) ==
    /\ ev[e].pc \in {"mh_fail", "mh_success"}
    /\ LET m == ev[e].message
           template == OutcomeTemplate(ev[e].pc)
       IN  Log(e, Format(template, <<Str(m.from_id), Str(m.chat_id), Str(m.message_id)>>),
               "done")
    /\ UNCHANGED <<qvars, avars, started, ADMINS, now, profile, nchanges, deleted, banned>>

(***************************************************************************)
(* start_message_handler and private_message_handler.                      *)
(***************************************************************************)
\* await log(message, Text.log_recieved_private); then "if is_trusted:"
StReceived(e) ==
    /\ ev[e].pc = "st_recv"
    /\ Log(e, Text_log_recieved_private,
           IF FunctionTruth THEN "st_menu" ELSE "st_forbidden")
    /\ UNCHANGED <<qvars, avars, started, ADMINS, now, profile, nchanges, deleted, banned>>

\* await message.answer(...), of either branch
StAnswer(e) ==
    /\ ev[e].pc \in {"st_menu", "st_forbidden"}
    /\ ev' = [ev EXCEPT
                ![e].trace = Append(@, Call("answer",
                                            IF ev[e].pc = "st_menu" THEN Text_select_logs
                                            ELSE Text_forbidden_command, "ok")),
                ![e].pc = IF ev[e].pc = "st_menu" THEN "st_pin" ELSE "done"]
    /\ UNCHANGED <<qvars, avars, started, ADMINS, now, profile, nchanges, logfile, deleted, banned>>

\* await menu.pin()
StPin(e) ==
    /\ ev[e].pc = "st_pin"
    /\ ev' = [ev EXCEPT ![e].trace = Append(@, Call("pin", Text_select_logs, "ok")),
                        ![e].pc = "done"]
    /\ UNCHANGED <<qvars, avars, started, ADMINS, now, profile, nchanges, logfile, deleted, banned>>

\* await log(message, Text.log_recieved_private)
PmReceived(e) ==
    /\ ev[e].pc = "pm_recv"
    /\ Log(e, Text_log_recieved_private, "done")
    /\ UNCHANGED <<qvars, avars, started, ADMINS, now, profile, nchanges, deleted, banned>>

Next ==
    \/ Main
    \/ ProfileChange
    \/ Receive
    \/ \E e \in 1..Len(ev) : MhReceived(e)
    \/ \E e \in 1..Len(ev) : MhLogAndReturn(e)
    \/ \E e \in 1..Len(ev) : MhIsValid(e)
    \/ \E e \in 1..Len(ev) : MhLogInvalid(e)
    \/ \E e \in 1..Len(ev) : MhDelete(e)
    \/ \E e \in 1..Len(ev) : MhBan(e)
    \/ \E e \in 1..Len(ev) : MhLogOutcome(e)
    \/ \E e \in 1..Len(ev) : StReceived(e)
    \/ \E e \in 1..Len(ev) : StAnswer(e)
    \/ \E e \in 1..Len(ev) : StPin(e)
    \/ \E e \in 1..Len(ev) : PmReceived(e)

Spec == Init /\ [][Next]_vars

(***************************************************************************)
(* get_log_entries.  Time is counted in quarters of an hour, so that the   *)
(* hour of min_delta_to_terminate is 4.  A line of the file is blank (shorter than *)
(* 2 characters) or the JSON of an entry; an entry's date is None or the   *)
(* time its "date" string parses to.                                       *)
(***************************************************************************)
min_delta_to_terminate == 4
message_text_max_length == 2048

TypeError == <<"<TypeError>">>
JSONDecodeError == <<"<JSONDecodeError>">>
KeyError == <<"<KeyError>">>
strptime_ValueError == <<"<ValueError>">>
Exceptions == {TypeError, JSONDecodeError, KeyError, strptime_ValueError}

\* len(text): a token "<2049 characters>" stands for that many characters
TokenLen(c) == IF c = "<2049 characters>" THEN 2049 ELSE 1

RECURSIVE TextLen(_)
TextLen(text) == IF text = <<>> THEN 0 ELSE TokenLen(Head(text)) + TextLen(Tail(text))

\* f"{value}" of a str | None
StrOf(text) == IF text = None THEN <<"None">> ELSE text

\* "\n".join(rows)
RECURSIVE JoinRows(_)
JoinRows(rows) ==
    IF rows = <<>> THEN <<>>
    ELSE IF Len(rows) = 1 THEN rows[1]
    ELSE rows[1] \o <<"\n">> \o JoinRows(Tail(rows))

\* format_entry: len(placeholder + 1) raises TypeError as soon as the text is
\* longer than the budget
format_entry(entry) ==
    IF entry.text # None /\ TextLen(entry.text) > message_text_max_length
    THEN TypeError
    ELSE JoinRows(<< <<"Date: ", Str(entry.date)>>,
                     <<"Comment: ">> \o StrOf(entry.comment),
                     <<"User ID: ", Str(entry.user_id)>>,
                     <<"User name: ">> \o StrOf(entry.user_name),
                     <<"User bio: ">> \o StrOf(entry.user_bio),
                     <<"Chat ID: ", Str(entry.chat_id)>>,
                     <<"Chat title: ">> \o StrOf(entry.chat_title),
                     <<"Message ID: ", Str(entry.message_id)>>,
                     <<"Message text: ">> \o StrOf(entry.text) >>)

stop_search(date, start, end) ==
    IF date = NoneId THEN FALSE
    ELSE \/ (start - date) > min_delta_to_terminate
         \/ (date - end) > min_delta_to_terminate

RECURSIVE Reverse(_)
Reverse(seq) == IF seq = <<>> THEN <<>> ELSE Append(Reverse(Tail(seq)), Head(seq))

\* the for loop of lines 286-300 from line i down, entries collected so far.
\* A line is "blank" (shorter than 2 characters), "json" (a JSON object with the
\* key "date", None or in DATE_FORMAT), "not json" (json.loads raises), "no date"
\* (entry["date"] raises) or "bad date" (strptime raises); nothing catches these.
RECURSIVE Scan(_, _, _, _, _)
Scan(lines, i, start, end, entries) ==
    IF i = 0 THEN [raised |-> None, entries |-> entries]
    ELSE IF lines[i].kind = "blank" THEN Scan(lines, i - 1, start, end, entries)
    ELSE IF lines[i].kind = "not json" THEN [raised |-> JSONDecodeError, entries |-> entries]
    ELSE IF lines[i].kind = "no date" THEN [raised |-> KeyError, entries |-> entries]
    ELSE IF lines[i].kind = "bad date" THEN [raised |-> strptime_ValueError, entries |-> entries]
    ELSE LET entry == lines[i].entry
             date == entry.date
         IN  IF stop_search(date, start, end)
             THEN [raised |-> None, entries |-> entries]
             ELSE IF date = NoneId \/ (date >= start /\ date <= end)
             THEN IF format_entry(entry) = TypeError
                  THEN [raised |-> TypeError, entries |-> entries]
                  ELSE Scan(lines, i - 1, start, end, Append(entries, format_entry(entry)))
             ELSE Scan(lines, i - 1, start, end, entries)

\* the list returned, or <<the exception raised>>
get_log_entries(lines, start, end) ==
    LET r == Scan(lines, Len(lines), start, end, <<>>)
    IN  IF r.raised # None THEN <<r.raised>> ELSE Reverse(r.entries)

Raised(result) == Len(result) = 1 /\ result[1] \in Exceptions

(***************************************************************************)
(* get_log_entries applied to a log and a window.                          *)
(***************************************************************************)
BlankLine == [kind |-> "blank", entry |-> NoLine]

LongText == <<"<2049 characters>">>

\* line i of a file: code -5 not JSON, -4 JSON without "date", -3 a date not in
\* DATE_FORMAT, -2 a blank line, -1 an entry whose date is None, else the date
FileLine(i, code, text) ==
    CASE code = -5 -> [kind |-> "not json", entry |-> NoLine]
      [] code = -4 -> [kind |-> "no date", entry |-> NoLine]
      [] code = -3 -> [kind |-> "bad date", entry |-> NoLine]
      [] code = -2 -> BlankLine
      [] OTHER -> [kind |-> "json",
                   entry |-> format_log(1, <<"g", "1">>, 11, <<"u", "11">>, None, i, code,
                                        text, Text_log_recieved_public)]

\* the files of up to MaxLines lines, at most one of them with a text over the budget
Files ==
    UNION { { [i \in 1..n |-> FileLine(i, f[i], IF i = long THEN LongText ELSE <<"b">>)]
              : f \in [1..n -> -5..MaxDate], long \in 0..n }
            : n \in 0..MaxLines }

InitQuery ==
    /\ file_lines \in Files
    /\ qstart \in 0..MaxDate
    /\ qend \in qstart..MaxDate
    /\ qresult = <<"<not called>">>
    /\ raw = <<>> /\ once = <<"<not called>">> /\ twice = <<"<not called>">>
    /\ started = TRUE /\ ADMINS = <<>> /\ now = 0
    /\ profile = [u \in {x.id : x \in Users} |-> None] /\ nchanges = 0
    /\ ev = <<>> /\ logfile = <<>> /\ deleted = {} /\ banned = {}
    /\ sent = <<>> /\ cb = <<>>

Query ==
    /\ qresult = <<"<not called>">>
    /\ qresult' = get_log_entries(file_lines, qstart, qend)
    /\ UNCHANGED <<botvars, avars, now, logfile, deleted, banned, file_lines, qstart, qend>>
    /\ UNCHANGED <<raw, once, twice>>

SpecQuery == InitQuery /\ [][Query]_vars

(***************************************************************************)
(* normalize applied to a text, and to its own result.                     *)
(***************************************************************************)
Characters == {"a", "A", "b", "B", " ", "\n", "cy_a", "cy_A", "p", "r", "cy_er", "cy_pe"}

RawTexts == UNION { [1..n -> Characters] : n \in 0..MaxText }

InitNormalize ==
    /\ raw \in RawTexts
    /\ once = <<"<not called>">> /\ twice = <<"<not called>">>
    /\ file_lines = <<>> /\ qstart = 0 /\ qend = 0 /\ qresult = <<"<not called>">>
    /\ started = TRUE /\ ADMINS = <<>> /\ now = 0
    /\ profile = [u \in {x.id : x \in Users} |-> None] /\ nchanges = 0
    /\ ev = <<>> /\ logfile = <<>> /\ deleted = {} /\ banned = {}
    /\ sent = <<>> /\ cb = <<>>

NormalizeOnce ==
    /\ once = <<"<not called>">>
    /\ once' = normalize(raw)
    /\ UNCHANGED <<botvars, avars, now, logfile, deleted, banned, file_lines, qstart, qend,
                   qresult, raw, twice>>

NormalizeAgain ==
    /\ once # <<"<not called>">> /\ twice = <<"<not called>">>
    /\ twice' = normalize(once)
    /\ UNCHANGED <<botvars, avars, now, logfile, deleted, banned, file_lines, qstart, qend,
                   qresult, raw, once>>

NextNormalize == NormalizeOnce \/ NormalizeAgain

SpecNormalize == InitNormalize /\ [][NextNormalize]_vars

(***************************************************************************)
(* The log viewer and the Ban / Unban buttons.                             *)
(***************************************************************************)
ValueError == -2

\* LOGS_MENU, each time frame in quarters of an hour
LOGS_MENU == <<1, 4, 16, 96, 672, 2880>>

\* text.split("\n")
RECURSIVE Split(_, _)
Split(text, row) ==
    IF text = <<>> THEN <<row>>
    ELSE IF Head(text) = "\n" THEN <<row>> \o Split(Tail(text), <<>>)
    ELSE Split(Tail(text), Append(row, Head(text)))

\* row.find(target): the first place of target in row, 0 for -1
Find(row, target) ==
    IF \E i \in 1..Len(row) : row[i] = target
    THEN CHOOSE i \in 1..Len(row) :
            row[i] = target /\ \A j \in 1..(i - 1) : row[j] # target
    ELSE 0

\* int(field) of the digits of an id, ValueError of anything else
KnownInts == (0..120) \cup {TelegramServiceId}
ParseInt(field) ==
    IF Len(field) = 1 /\ \E n \in KnownInts : ToString(n) = field[1]
    THEN CHOOSE n \in KnownInts : ToString(n) = field[1]
    ELSE ValueError

extract_field(text, target) ==
    LET rows == Split(text, <<>>)
        hits == SelectSeq(rows, LAMBDA row : Find(row, target) # 0)
    IN  IF hits = <<>> THEN NoneId
        ELSE LET row == hits[1]
                 field == SubSeq(row, Find(row, target) + 1, Len(row))
             IN  IF field = <<"None">> THEN NoneId ELSE ParseInt(field)

\* bool(x) of an int | None
Truthy(x) == x # NoneId /\ x # 0

\* the lines of the log file as readlines() and json.loads give them back
ReadLines(file) == [i \in 1..Len(file) |-> [kind |-> "json", entry |-> file[i].line]]

\* the bot's own account and the administrator's private chat
BotId == 99
AdminChat == Private(Admin)

\* callback_query.message: the bot's message number i of the private chat
SentMessage(i) ==
    [ chat_id |-> AdminChat.id, chat_type |-> AdminChat.type, chat_title |-> AdminChat.title,
      from_id |-> BotId, is_bot |-> TRUE, full_name |-> <<"bot">>,
      text |-> sent[i].text, message_id |-> 100 + i, date |-> sent[i].date ]

Sent(text, keyboard) == [text |-> text, keyboard |-> keyboard, date |-> now]

\* what the log held when the administrator opened the viewer; the display name
\* and the biography are what the user chose them to be
AdminEntries ==
    { log_line_none(0, <<"Current admins: ">>),
      format_log(1, <<"g", "1">>, 11, <<"u", "11">>, None, 7, 1, <<"A", " ", "B">>,
                 Text_log_message_invalid),
      format_log(2, <<"g", "2">>, 10, <<"u", "10">>, None, 8, 2, <<"b">>,
                 Text_log_trusted_user),
      format_log(1, <<"g", "1">>, 11, <<"Chat ID: ", "2">>, None, 7, 1, <<"A", " ", "B">>,
                 Text_log_message_invalid),
      format_log(1, <<"g", "1">>, 11, <<"u", "11">>, <<"Message ID: ", "x">>, 7, 1,
                 <<"A", " ", "B">>, Text_log_message_invalid) }

InitAdmin ==
    /\ \E n \in 1..2 : logfile \in [1..n -> {[ev |-> 0, line |-> l] : l \in AdminEntries}]
    /\ now = 2
    /\ sent = <<>>
    /\ cb = <<>>
    /\ deleted = {}
    /\ banned \in SUBSET {<<1, 11>>}
    /\ started = TRUE /\ ADMINS = AllAdmins(VALID_CHATS)
    /\ profile = [u \in {x.id : x \in Users} |-> None] /\ nchanges = 0 /\ ev = <<>>
    /\ file_lines = <<>> /\ qstart = 0 /\ qend = 0 /\ qresult = <<"<not called>">>
    /\ raw = <<>> /\ once = <<"<not called>">> /\ twice = <<"<not called>">>

NewPress(handler, target, pc, ids) ==
    [ handler |-> handler, target |-> target, pc |-> pc,
      message_id |-> ids[1], chat_id |-> ids[2], user_id |-> ids[3], trace |-> <<>> ]

\* logs_menu_callback_query_handler
LogsMenu ==
    /\ Len(cb) < MaxPresses
    /\ \E b \in 1..Len(LOGS_MENU) :
          LET entries == get_log_entries(ReadLines(logfile), now - LOGS_MENU[b], now)
              answers == IF entries = <<>> THEN <<Sent(Text_no_data, "none")>>
                         ELSE [i \in 1..Len(entries) |-> Sent(entries[i], "ban")]
          IN  IF Raised(entries)
              THEN /\ cb' = Append(cb, NewPress("logs_menu", 0, "fault", <<NoneId, NoneId, NoneId>>))
                   /\ sent' = sent
              ELSE /\ cb' = Append(cb, NewPress("logs_menu", 0, "done", <<NoneId, NoneId, NoneId>>))
                   /\ sent' = sent \o answers
    /\ UNCHANGED <<botvars, qvars, now, logfile, deleted, banned>>

\* ban_user_callback_query_handler up to its first await
PressBan ==
    /\ Len(cb) < MaxPresses
    /\ \E i \in 1..Len(sent) :
          /\ sent[i].keyboard = "ban"
          /\ LET message_id == extract_field(sent[i].text, "Message ID: ")
                 chat_id == extract_field(sent[i].text, "Chat ID: ")
                 user_id == extract_field(sent[i].text, "User ID: ")
                 pc == IF ValueError \in {message_id, chat_id, user_id} THEN "fault"
                       ELSE IF Truthy(message_id) /\ Truthy(chat_id) /\ Truthy(user_id)
                       THEN "cb_delete"
                       ELSE "respond_fail"
             IN  cb' = Append(cb, NewPress("ban", i, pc, <<message_id, chat_id, user_id>>))
    /\ UNCHANGED <<botvars, qvars, now, logfile, deleted, banned, sent>>

\* unban_user_callback_query_handler up to its first await
PressUnban ==
    /\ Len(cb) < MaxPresses
    /\ \E i \in 1..Len(sent) :
          /\ sent[i].keyboard = "unban"
          /\ LET chat_id == extract_field(sent[i].text, "Chat ID: ")
                 user_id == extract_field(sent[i].text, "User ID: ")
                 pc == IF ValueError \in {chat_id, user_id} THEN "fault" ELSE "cb_unban"
             IN  cb' = Append(cb, NewPress("unban", i, pc, <<NoneId, chat_id, user_id>>))
    /\ UNCHANGED <<botvars, qvars, now, logfile, deleted, banned, sent>>

CbStep(c, step, pc2) == [cb EXCEPT ![c].trace = Append(@, step), ![c].pc = pc2]

\* await BOT.delete_message(chat_id, message_id), line 432
CbDelete(c) ==
    /\ cb[c].pc = "cb_delete"
    /\ \E r \in Results :
          /\ deleted' = IF r = "ok" THEN deleted \cup {<<cb[c].chat_id, cb[c].message_id>>}
                        ELSE deleted
          /\ cb' = CbStep(c, Call("delete_message", <<cb[c].chat_id, cb[c].message_id>>, r),
                          IF r = "ok" THEN "cb_ban" ELSE "respond_fail")
    /\ UNCHANGED <<botvars, qvars, now, logfile, banned, sent>>

\* await BOT.ban_chat_member(chat_id, user_id), line 433
CbBan(c) ==
    /\ cb[c].pc = "cb_ban"
    /\ \E r \in Results :
          /\ banned' = IF r = "ok" THEN banned \cup {<<cb[c].chat_id, cb[c].user_id>>}
                       ELSE banned
          /\ cb' = CbStep(c, Call("ban_chat_member", <<cb[c].chat_id, cb[c].user_id>>, r),
                          IF r = "ok" THEN "respond_success" ELSE "respond_fail")
    /\ UNCHANGED <<botvars, qvars, now, logfile, deleted, sent>>

\* await BOT.unban_chat_member(chat_id, user_id, only_if_banned=True): where it
\* returns, a user who is banned is so no longer, one who is not stays as is
CbUnban(c) ==
    /\ cb[c].pc = "cb_unban"
    /\ \E r \in Results :
          /\ banned' = IF r = "ok" THEN banned \ {<<cb[c].chat_id, cb[c].user_id>>}
                       ELSE banned
          /\ cb' = CbStep(c, Call("unban_chat_member", <<cb[c].chat_id, cb[c].user_id>>, r),
                          IF r = "ok" THEN "respond_success" ELSE "respond_fail")
    /\ UNCHANGED <<botvars, qvars, now, logfile, deleted, sent>>

\* the arguments the handler gives to each str.format
FormatArgs(c) ==
    IF cb[c].handler = "ban"
    THEN <<Str(cb[c].user_id), Str(cb[c].chat_id), Str(cb[c].message_id)>>
    ELSE <<Str(cb[c].user_id)>>

\* the template of the answer and the keyboard under it
AnswerTemplate(handler, pc) ==
    CASE handler = "ban" /\ pc = "respond_success" -> Text_f_ban_success
      [] handler = "ban" -> Text_f_ban_fail
      [] handler = "unban" /\ pc = "respond_success" -> Text_f_unban_success
      [] OTHER -> Text_f_unban_fail

AnswerKeyboard(handler, pc) ==
    CASE handler = "ban" /\ pc = "respond_success" -> "unban"
      [] handler = "unban" /\ pc = "respond_success" -> "ban"
      [] OTHER -> "none"

\* the template of the audit line
LogTemplate(handler, pc) ==
    CASE handler = "ban" /\ pc = "log_success" -> Text_log_f_ban_success
      [] handler = "ban" -> Text_log_f_ban_fail
      [] handler = "unban" /\ pc = "log_success" -> Text_log_f_unban_success
      [] OTHER -> Text_log_f_unban_fail

\* await message.answer(Text.f_....format(...)): format raises IndexError, or the
\* answer is sent
CbRespond(c) ==
    /\ cb[c].pc \in {"respond_success", "respond_fail"}
    /\ LET text == Format(AnswerTemplate(cb[c].handler, cb[c].pc), FormatArgs(c))
       IN  IF text = IndexError
           THEN /\ cb' = [cb EXCEPT ![c].pc = "fault"]
                /\ sent' = sent
           ELSE /\ cb' = CbStep(c, Call("answer", text, "ok"),
                                IF cb[c].pc = "respond_success" THEN "log_success"
                                ELSE "log_fail")
                /\ sent' = Append(sent, Sent(text, AnswerKeyboard(cb[c].handler, cb[c].pc)))
    /\ UNCHANGED <<botvars, qvars, now, logfile, deleted, banned>>

\* await log(message, Text.log_f_....format(...))
CbLog(c) ==
    /\ cb[c].pc \in {"log_success", "log_fail"}
    /\ LET comment == Format(LogTemplate(cb[c].handler, cb[c].pc), FormatArgs(c))
           line == log_line(SentMessage(cb[c].target), None, comment)
       IN  IF comment = IndexError
           THEN /\ cb' = [cb EXCEPT ![c].pc = "fault"]
                /\ logfile' = logfile
           ELSE /\ cb' = CbStep(c, LogWrite(line), "cq_answer")
                /\ logfile' = Append(logfile, [ev |-> 0, line |-> line])
    /\ UNCHANGED <<botvars, qvars, now, deleted, banned, sent>>

\* await callback_query.answer()
CbAnswer(c) ==
    /\ cb[c].pc = "cq_answer"
    /\ cb' = CbStep(c, Call("callback_query.answer", <<>>, "ok"), "done")
    /\ UNCHANGED <<botvars, qvars, now, logfile, deleted, banned, sent>>

\* the texts an administrator types as commands in the private chat
Commands ==
    { <<"/log", " ", "0", "m">>, <<"/log", " ", "100000000", "d">>,
      <<"/ban", " ", "1", " ", "2">> }

\* the platform delivers a text message of the administrator's private chat
ReceiveCommand ==
    /\ Len(ev) < MaxCommands
    /\ \E text \in Commands :
          ev' = Append(ev, NewEvent("message", Admin, AdminChat, text, 9, now))
    /\ UNCHANGED <<qvars, avars, started, ADMINS, now, profile, nchanges, logfile, deleted, banned>>

\* the administrator's text commands, handled by private_message_handler
NextCommand ==
    \/ ReceiveCommand
    \/ \E e \in 1..Len(ev) : PmReceived(e)

SpecCommand == InitAdmin /\ [][NextCommand]_vars

NextAdmin ==
    \/ LogsMenu
    \/ PressBan
    \/ PressUnban
    \/ \E c \in 1..Len(cb) : CbDelete(c)
    \/ \E c \in 1..Len(cb) : CbBan(c)
    \/ \E c \in 1..Len(cb) : CbUnban(c)
    \/ \E c \in 1..Len(cb) : CbRespond(c)
    \/ \E c \in 1..Len(cb) : CbLog(c)
    \/ \E c \in 1..Len(cb) : CbAnswer(c)

SpecAdmin == InitAdmin /\ [][NextAdmin]_vars

(***************************************************************************)
(* What the claims speak of.                                               *)
(***************************************************************************)
Events == 1..Len(ev)
Done(e) == ev[e].pc = "done"

\* handled by message_handler, directly or through edited_message_handler
InMessageHandler(e) == ev[e].handler \in {"message_handler", "edited_message_handler"}

Steps(e) == ev[e].trace
LogSteps(e) == SelectSeq(Steps(e), LAMBDA t : t.op = "log")
CallSteps(e, op) == SelectSeq(Steps(e), LAMBDA t : t.op = op)
Enforced(e) == Len(CallSteps(e, "delete_message")) + Len(CallSteps(e, "ban_chat_member")) > 0

Comments(e) == [i \in 1..Len(LogSteps(e)) |-> LogSteps(e)[i].line.comment]
HasComment(e, c) == \E i \in 1..Len(Steps(e)) : Steps(e)[i].op = "log" /\ Steps(e)[i].line.comment = c

IdArgs(e) ==
    <<Str(ev[e].message.from_id), Str(ev[e].message.chat_id), Str(ev[e].message.message_id)>>
FailComment(e) == Format(Text_log_f_ban_fail, IdArgs(e))
SuccessComment(e) == Format(Text_log_f_ban_success, IdArgs(e))

\* the sender is a bot account, is in the admin roster, or is the system account
TrustedSender(e) ==
    \/ ev[e].message.is_bot
    \/ \E i \in 1..Len(ADMINS) : ADMINS[i] = ev[e].message.from_id
    \/ ev[e].message.from_id = 777000

InValidChat(e) == \E i \in 1..Len(VALID_CHATS) : VALID_CHATS[i] = ev[e].message.chat_id

\* the text, or the biography the validity check fetched, holds a banned phrase
BannedContent(e) ==
    \/ ~ validate_text(ev[e].message.text)
    \/ (ev[e].n_is_valid > 0 /\ ev[e].pc # "mh_is_valid" /\ ~ validate_text(ev[e].bio_seen))

(***************************************************************************)
(* C1.  A message in a valid chat from a non-trusted sender whose text or  *)
(* whose sender's biography holds a banned phrase is, once message_handler *)
(* has handled it, followed by exactly these steps in this order: the      *)
(* 'invalid' line, delete_message(chat, message id), ban_chat_member(chat, *)
(* sender), one outcome line.                                              *)
(***************************************************************************)
C1_InvalidIsDeletedThenBanned ==
    \A e \in Events :
        (Done(e) /\ InMessageHandler(e) /\ InValidChat(e) /\ ~ TrustedSender(e)
            /\ BannedContent(e))
        => LET m == ev[e].message
               t == Steps(e)
           IN  /\ Len(t) = 5
               /\ t[2].op = "log" /\ t[2].line.comment = Text_log_message_invalid
               /\ t[3].op = "delete_message" /\ t[3].args = <<m.chat_id, m.message_id>>
               /\ t[4].op = "ban_chat_member" /\ t[4].args = <<m.chat_id, m.from_id>>
               /\ t[5].op = "log" /\ t[5].line.comment \in {FailComment(e), SuccessComment(e)}

(***************************************************************************)
(* C2.  For a message whose sender is trusted (a bot account, or in the    *)
(* admin roster, or id 777000) the handlers never call delete_message or   *)
(* ban_chat_member, whatever its text and the sender's biography hold.     *)
(***************************************************************************)
C2_TrustedNeverEnforced ==
    \A e \in Events : TrustedSender(e) => ~ Enforced(e)

\* each kind of trusted sender has posted a banned phrase in a valid chat and
\* message_handler has returned
C2_Witness ==
    /\ \E e \in Events :
          /\ Done(e) /\ InMessageHandler(e) /\ InValidChat(e)
          /\ ev[e].message.from_id = 777000
          /\ ~ validate_text(ev[e].message.text)
          /\ Comments(e) = <<Text_log_recieved_public, Text_log_trusted_user>>
    /\ \E e \in Events :
          /\ Done(e) /\ InMessageHandler(e) /\ InValidChat(e)
          /\ ev[e].message.from_id # 777000 /\ TrustedSender(e)
          /\ ~ validate_text(ev[e].message.text)

(***************************************************************************)
(* C3.  For a message whose chat id is not in VALID_CHATS, message_handler *)
(* returns without a call of is_trusted, is_valid or validate_text and     *)
(* without delete_message or ban_chat_member.                              *)
(***************************************************************************)
C3_UnsupportedChatShortCircuits ==
    \A e \in Events :
        (InMessageHandler(e) /\ ~ InValidChat(e))
        => /\ ev[e].n_is_trusted = 0
           /\ ev[e].n_is_valid = 0
           /\ ev[e].n_validate_text = 0
           /\ ~ Enforced(e)
           /\ Done(e) => Comments(e) = <<Text_log_recieved_public, Text_log_unsupported_chat>>

\* a banned phrase posted in an unsupported chat, by a sender the trust check
\* would pass and by one it would not, has been handled
C3_Witness ==
    /\ \E e \in Events :
          /\ Done(e) /\ InMessageHandler(e) /\ ~ InValidChat(e)
          /\ ~ validate_text(ev[e].message.text) /\ ~ TrustedSender(e)
    /\ \E e \in Events :
          /\ Done(e) /\ InMessageHandler(e) /\ ~ InValidChat(e)
          /\ ev[e].message.chat_type = "private"

(***************************************************************************)
(* C4.  The outcome line of an invalid message is the 'fail' line whenever *)
(* delete_message or ban_chat_member raised TelegramBadRequest, and the    *)
(* 'success' line only when both returned; when delete returns and ban is  *)
(* rejected the outcome is 'fail', no success line is written, the message *)
(* stays deleted, and neither call is made a second time.                  *)
(***************************************************************************)
Rejected(e, op) == \E i \in 1..Len(Steps(e)) :
    Steps(e)[i].op = op /\ Steps(e)[i].result = "TelegramBadRequest"
Returned(e, op) == \E i \in 1..Len(Steps(e)) :
    Steps(e)[i].op = op /\ Steps(e)[i].result = "ok"

C4_OutcomeClassification ==
    \A e \in Events : InMessageHandler(e) =>
        LET m == ev[e].message
        IN  /\ HasComment(e, SuccessComment(e))
                => Returned(e, "delete_message") /\ Returned(e, "ban_chat_member")
            /\ (Rejected(e, "delete_message") \/ Rejected(e, "ban_chat_member"))
                => /\ ~ HasComment(e, SuccessComment(e))
                   /\ Done(e) => /\ Steps(e)[Len(Steps(e))].op = "log"
                                 /\ Steps(e)[Len(Steps(e))].line.comment = FailComment(e)
                                 /\ Len(SelectSeq(Comments(e),
                                                  LAMBDA c : c = FailComment(e))) = 1
            /\ Len(CallSteps(e, "delete_message")) <= 1
            /\ Len(CallSteps(e, "ban_chat_member")) <= 1
            /\ Returned(e, "delete_message") => <<m.chat_id, m.message_id>> \in deleted

\* delete_message returned, ban_chat_member was rejected, the handler is through
C4_Witness ==
    \E e \in Events :
        /\ Done(e) /\ InMessageHandler(e)
        /\ Returned(e, "delete_message") /\ Rejected(e, "ban_chat_member")
        /\ HasComment(e, FailComment(e))

(***************************************************************************)
(* C5.  As claimed: handling one message writes exactly one audit line for *)
(* the branch taken and, only for invalid, exactly one more for the        *)
(* outcome, 1 or 2 lines in all.                                           *)
(***************************************************************************)
BranchComments ==
    { Text_log_unsupported_chat, Text_log_trusted_user, Text_log_message_valid,
      Text_log_message_invalid }

Answered(e, text) == \E i \in 1..Len(Steps(e)) :
    Steps(e)[i].op = "answer" /\ Steps(e)[i].args = text

C7_UntrustedStartIsRejected ==
    \A e \in Events :
        (Done(e) /\ ev[e].handler = "start_message_handler" /\ ~ TrustedSender(e))
        => /\ Comments(e) = <<Text_log_recieved_private>>
           /\ Answered(e, Text_forbidden_command)
           /\ ~ Answered(e, Text_select_logs)
           /\ Len(CallSteps(e, "pin")) = 0

(***************************************************************************)
(* C9.  Admin trust is per chat: a sender who administers valid chat A     *)
(* only, is no bot account and not 777000, and posts in another valid chat *)
(* B is content-checked there, and enforced against if invalid.            *)
(***************************************************************************)
AdministersChat(user_id, chat_id) ==
    \E i \in 1..Len(ChatAdministrators(chat_id)) : ChatAdministrators(chat_id)[i] = user_id

C9_AdminTrustIsPerChat ==
    \A e \in Events :
        (Done(e) /\ InMessageHandler(e) /\ InValidChat(e)
            /\ ~ ev[e].message.is_bot /\ ev[e].message.from_id # 777000
            /\ ~ AdministersChat(ev[e].message.from_id, ev[e].message.chat_id))
        => /\ ev[e].n_is_valid = 1
           /\ ~ HasComment(e, Text_log_trusted_user)
           /\ BannedContent(e) => Enforced(e)

(***************************************************************************)
(* C10.  An edited-message update is handled exactly like a new-message    *)
(* update with the same chat, sender and content: under the same answers   *)
(* of the platform both make the same steps (the same audit lines, the     *)
(* same calls), whatever was decided before.                               *)
(***************************************************************************)
\* what the platform answered: each biography fetched, each call's result
PlatformAnswers(e) ==
    [i \in 1..Len(Steps(e)) |->
        IF Steps(e)[i].op = "log" THEN <<"bio", Steps(e)[i].line.user_bio>>
        ELSE <<"result", <<Steps(e)[i].result>>>>]

\* the steps, less the answers
Effects(e) ==
    [i \in 1..Len(Steps(e)) |->
        <<Steps(e)[i].op, Steps(e)[i].line.comment, Steps(e)[i].args>>]

SameContent(e1, e2) ==
    LET m1 == ev[e1].message
        m2 == ev[e2].message
    IN  [m1 EXCEPT !.date = 0] = [m2 EXCEPT !.date = 0]

C10_EditedHandledLikeNew ==
    \A e1, e2 \in Events :
        (Done(e1) /\ Done(e2)
            /\ ev[e1].kind = "message" /\ ev[e2].kind = "edited_message"
            /\ SameContent(e1, e2)
            /\ ev[e1].bio_seen = ev[e2].bio_seen
            /\ SelectSeq(PlatformAnswers(e1), LAMBDA a : a[1] = "result")
                 = SelectSeq(PlatformAnswers(e2), LAMBDA a : a[1] = "result"))
        => /\ ev[e1].handler \in {"message_handler"}
           /\ Effects(e1) = Effects(e2)

(***************************************************************************)
(* C6.  For any log of entries and blank lines, the texts within the       *)
(* budget, and any window [start, end], get_log_entries returns            *)
(* exactly the entries whose timestamp lies in [start, end] plus all the   *)
(* entries without timestamp, in file order; so with entries at            *)
(* T1 < T2 < T3 and the window [T1, T2], the entries at T1 and T2.         *)
(***************************************************************************)
InWindowOrUndated(line) ==
    /\ line.kind = "json"
    /\ \/ line.entry.date = NoneId
       \/ (qstart <= line.entry.date /\ line.entry.date <= qend)

ExpectedEntries ==
    LET hits == SelectSeq(file_lines, InWindowOrUndated)
    IN  [i \in 1..Len(hits) |-> format_entry(hits[i].entry)]

WellFormed(line) ==
    line.kind = "blank" \/ (line.kind = "json" /\ line.entry.text # <<"<2049 characters>">>)

C6_QueryReturnsTheWindow ==
    (/\ qresult # <<"<not called>">>
     /\ \A i \in 1..Len(file_lines) : WellFormed(file_lines[i]))
    => qresult = ExpectedEntries

(***************************************************************************)
(* C8.  When unban_chat_member returns (also for a user who is not banned, *)
(* by only_if_banned), the unban handler sends the success answer, writes  *)
(* the unban-success audit line, reports no failure and ends without an    *)
(* unhandled fault.                                                        *)
(***************************************************************************)
CbReturned(c, op) == \E i \in 1..Len(cb[c].trace) :
    cb[c].trace[i].op = op /\ cb[c].trace[i].result = "ok"
CbSteps(c, op) == SelectSeq(cb[c].trace, LAMBDA t : t.op = op)

C8_UnbanReportsSuccess ==
    \A c \in 1..Len(cb) :
        (cb[c].handler = "unban" /\ CbReturned(c, "unban_chat_member")
            /\ cb[c].pc \in {"done", "fault"})
        => /\ cb[c].pc = "done"
           /\ Len(CbSteps(c, "answer")) = 1
           /\ CbSteps(c, "answer")[1].args[1] = "Successfully unblocked the user."
           /\ Len(CbSteps(c, "log")) = 1
           /\ CbSteps(c, "log")[1].line.comment[1] = "Successfully unblocked user "

(***************************************************************************)
(* C11.  A log line that cannot be parsed (not JSON, no "date" key, a date *)
(* not in DATE_FORMAT) is skipped: the query returns what it returns for   *)
(* the same file without these lines, and so does not abort on them.       *)
(***************************************************************************)
Called == qresult # <<"<not called>">>
Unparseable(line) == line.kind \in {"not json", "no date", "bad date"}
Parseable(line) == ~Unparseable(line)

C11_UnparseableLinesAreSkipped ==
    Called => qresult = get_log_entries(SelectSeq(file_lines, Parseable), qstart, qend)

(***************************************************************************)
(* C12.  When every line of the log is an entry dated inside the window    *)
(* and one of them has a text longer than message_text_max_length, the     *)
(* query returns a list that holds this entry rendered with its text cut   *)
(* to a prefix that ends with "..." and fits the budget.                   *)
(***************************************************************************)
InWindow(line) ==
    line.kind = "json" /\ qstart <= line.entry.date /\ line.entry.date <= qend

TruncatedText == <<"<2045 characters>", "...">>

C12_LongTextIsTruncated ==
    (/\ Called
     /\ \A i \in 1..Len(file_lines) : InWindow(file_lines[i])
     /\ \E i \in 1..Len(file_lines) : file_lines[i].entry.text = LongText)
    => /\ ~Raised(qresult)
       /\ \E i \in 1..Len(file_lines), j \in 1..Len(qresult) :
             /\ file_lines[i].entry.text = LongText
             /\ qresult[j] = format_entry([file_lines[i].entry EXCEPT !.text = TruncatedText])

(***************************************************************************)
(* C13.  normalize is idempotent: normalize(normalize(s)) = normalize(s)   *)
(* for every text s, with the configured LATIN_TO_CYRILLIC.                *)
(***************************************************************************)
C13_NormalizeIsIdempotent ==
    twice # <<"<not called>">> => twice = once

(***************************************************************************)
(* C14.  A malformed command sent as text in a private chat ('/log 0m',    *)
(* '/log 100000000d', '/ban 1 2') is answered with 'Invalid command' once  *)
(* its handler has finished: it is not dropped silently.                   *)
(***************************************************************************)
C14_MalformedCommandIsRejected ==
    \A e \in Events :
        (Done(e) /\ ev[e].message.chat_type = "private" /\ ev[e].message.text \in Commands)
        => Answered(e, Text_invalid_command)

(***************************************************************************)
(* C15.  Under every interleaving of the handlers, at every moment: the    *)
(* lines of one message stand in the log file in the order its handler     *)
(* wrote them, each as one line (the verdict before the outcome), and a    *)
(* delete_message or ban_chat_member call of a message comes after its     *)
(* 'invalid' line, which is then in the file.                              *)
(***************************************************************************)
FileLinesOf(e) ==
    LET mine == SelectSeq(logfile, LAMBDA l : l.ev = e)
    IN  [i \in 1..Len(mine) |-> mine[i].line]

WrittenBy(e) == [i \in 1..Len(LogSteps(e)) |-> LogSteps(e)[i].line]

\* an earlier step of e wrote its 'invalid' line (which FileLinesOf(e) then holds)
InvalidLineBefore(e, i) ==
    \E j \in 1..(i - 1) :
        /\ Steps(e)[j].op = "log"
        /\ Steps(e)[j].line.comment = Text_log_message_invalid

C15_LogOrderUnderInterleaving ==
    \A e \in Events :
        LET t == Steps(e)
            outcomes == {FailComment(e), SuccessComment(e)}
        IN  /\ FileLinesOf(e) = WrittenBy(e)
            /\ \A i \in 1..Len(t) :
                  /\ t[i].op \in {"delete_message", "ban_chat_member"}
                     => InvalidLineBefore(e, i)
                  /\ (t[i].op = "log" /\ t[i].line.comment \in outcomes)
                     => InvalidLineBefore(e, i)

\* two handlers interleaved in the file, the first of them having enforced
C15_Witness ==
    \E e1, e2 \in Events :
        /\ e1 # e2 /\ Done(e1) /\ Enforced(e1)
        /\ \E i, j, k \in 1..Len(logfile) :
              i < j /\ j < k /\ logfile[i].ev = e1 /\ logfile[j].ev = e2 /\ logfile[k].ev = e1

(***************************************************************************)
(* C16.  Pressing the Ban button of a displayed log entry recovers, from   *)
(* the rendered text, exactly the chat id, user id and message id stored   *)
(* in that entry, whatever its name, biography, title, comment and text    *)
(* hold; recovering them does not raise; delete_message and                *)
(* ban_chat_member are called with these ids.                              *)
(***************************************************************************)
C16_BanUsesTheEntrysIds ==
    \A c \in 1..Len(cb), k \in 1..Len(logfile) :
        (cb[c].handler = "ban" /\ sent[cb[c].target].text = format_entry(logfile[k].line))
        => LET entry == logfile[k].line
           IN  /\ cb[c].pc # "fault"
               /\ cb[c].message_id = entry.message_id
               /\ cb[c].chat_id = entry.chat_id
               /\ cb[c].user_id = entry.user_id
               /\ \A i \in 1..Len(cb[c].trace) :
                     /\ cb[c].trace[i].op = "delete_message"
                        => cb[c].trace[i].args = <<entry.chat_id, entry.message_id>>
                     /\ cb[c].trace[i].op = "ban_chat_member"
                        => cb[c].trace[i].args = <<entry.chat_id, entry.user_id>>

(***************************************************************************)
(* C17.  Every message in a valid chat from a sender who is not trusted    *)
(* gets a verdict, whichever handler the dispatcher selects, a start       *)
(* command included; when its text holds a banned phrase the verdict is    *)
(* 'invalid' and delete_message is called for it.                          *)
(***************************************************************************)
C17_StartCommandIsModerated ==
    \A e \in Events :
        (Done(e) /\ InValidChat(e) /\ ~ TrustedSender(e))
        => /\ HasComment(e, Text_log_message_valid) \/ HasComment(e, Text_log_message_invalid)
           /\ ~ validate_text(ev[e].message.text)
              => /\ HasComment(e, Text_log_message_invalid)
                 /\ Len(CallSteps(e, "delete_message")) = 1

(***************************************************************************)
(* C18.  After startup and any sequence and interleaving of new-message    *)
(* and edited-message events, the timestamps of the lines of the log file  *)
(* are non-decreasing in file order.                                       *)
(***************************************************************************)
C18_LogTimestampsNonDecreasing ==
    \A i, j \in 1..Len(logfile) :
        i < j => logfile[i].line.date <= logfile[j].line.date

(***************************************************************************)
(* C19.  When every line of the log carries a timestamp, the lines are in  *)
(* non-decreasing timestamp order and none is more than one hour later     *)
(* than end, get_log_entries(start, end) returns exactly the entries with  *)
(* start <= timestamp <= end, in file order.                               *)
(***************************************************************************)
Dated(line) == line.kind = "json" /\ line.entry.date # NoneId

OrderedWithinSlack ==
    /\ \A i \in 1..Len(file_lines) : Dated(file_lines[i])
    /\ \A i, j \in 1..Len(file_lines) :
          i < j => file_lines[i].entry.date <= file_lines[j].entry.date
    /\ \A i \in 1..Len(file_lines) : file_lines[i].entry.date - qend <= min_delta_to_terminate

EntriesInWindow == SelectSeq(file_lines, InWindow)

C19_OrderedLogQueryIsExact ==
    (Called /\ OrderedWithinSlack)
    => /\ ~ Raised(qresult)
       /\ Len(qresult) = Len(EntriesInWindow)
       /\ \A i \in 1..Len(qresult) :
             qresult[i] = JoinRows(<< <<"Date: ", Str(EntriesInWindow[i].entry.date)>>,
                                      <<"Comment: ">> \o EntriesInWindow[i].entry.comment,
                                      <<"User ID: ", Str(EntriesInWindow[i].entry.user_id)>>,
                                      <<"User name: ">> \o EntriesInWindow[i].entry.user_name,
                                      <<"User bio: ">> \o <<"None">>,
                                      <<"Chat ID: ", Str(EntriesInWindow[i].entry.chat_id)>>,
                                      <<"Chat title: ">> \o EntriesInWindow[i].entry.chat_title,
                                      <<"Message ID: ", Str(EntriesInWindow[i].entry.message_id)>>,
                                      <<"Message text: ">> \o EntriesInWindow[i].entry.text >>)

(***************************************************************************)
(* C20.  The biography written in a message's 'valid' or 'invalid' line is *)
(* the biography its validity decision evaluated, also when the profile    *)
(* changes while the handler is suspended.                                 *)
(***************************************************************************)
C20_LoggedBioIsTheJudgedBio ==
    \A e \in Events : \A i \in 1..Len(Steps(e)) :
        (/\ Steps(e)[i].op = "log"
         /\ Steps(e)[i].line.comment \in {Text_log_message_valid, Text_log_message_invalid})
        => Steps(e)[i].line.user_bio = ev[e].bio_seen
====
